---- MODULE Spec2Model ----
(***************************************************************************)
(* Crawl orchestration of guanghao479/golden.                              *)
(*                                                                         *)
(* The server strategies of the repository's history are modelled, each    *)
(* under its own specification:                                            *)
(*   Spec      - the synchronous crawl handler with crawl_status tracking  *)
(*               (supabase/functions/api/handler.ts, src/unnamed/part_002) *)
(*               driven by the admin UI (frontend/src/App.tsx);            *)
(*               SpecFaulty is Spec over a store that may reject writes.   *)
(*   SpecAsync - the job-queue handler with the /refresh sweep             *)
(*               (src/unnamed/part_003, first half).                       *)
(*   SpecPlain - the synchronous handler without status tracking           *)
(*               (src/unnamed/part_004), the one handler.test.ts runs.     *)
(*   SpecMapper - mapEvents and mapPlaces alone, over loosely typed input. *)
(* Every `await` of a handler is a point where other requests interleave,  *)
(* so each handler is a process whose steps are the code between awaits.   *)
(***************************************************************************)
EXTENDS Integers, Sequences, FiniteSets, Bags, TLC

\* ------------------------------------------------------------------ bounds
\* Handler invocations (HTTP requests to /crawl) created in one behaviour.
MaxRuns == 2
\* Raw records the extraction service returns in one payload.
MaxRecords == 2
\* Invocations of the /refresh sweep created in one behaviour.
MaxSweeps == 2

\* ------------------------------------------------------------ nullable values
\* SQL NULL / JS null is the empty sequence, a present value v is <<v>>.
Null == <<>>
Some(v) == <<v>>

\* ------------------------------------------------------------------ JS values
\* A loosely typed JSON value: its JS type, its scalar text and (arrays) its
\* elements.  Numbers and booleans carry their String() text.
JsVal(t, s, a) == [t |-> t, s |-> s, a |-> a]
JsUndefined == JsVal("undefined", "", <<>>)
JsNull == JsVal("null", "", <<>>)
JsStr(s) == JsVal("string", s, <<>>)
JsNum(s) == JsVal("number", s, <<>>)
JsBool(b) == JsVal("boolean", IF b THEN "true" ELSE "false", <<>>)
JsObj == JsVal("object", "", <<>>)
JsArr(a) == JsVal("array", "", a)

\* record.field of a raw record: undefined when the key is absent.
Field(rec, f) == IF f \in DOMAIN rec THEN rec[f] ELSE JsUndefined

\* v ?? d
Nullish(v) == v.t \in {"undefined", "null"}
Coalesce(v, d) == IF Nullish(v) THEN d ELSE v

\* Boolean(v)
Truthy(v) ==
  CASE v.t \in {"undefined", "null"} -> FALSE
    [] v.t = "string" -> v.s # ""
    [] v.t = "number" -> v.s \notin {"0", "NaN"}
    [] v.t = "boolean" -> v.s = "true"
    [] OTHER -> TRUE

\* String(v) of a scalar or object.
ScalarString(v) ==
  CASE v.t = "undefined" -> "undefined"
    [] v.t = "null" -> "null"
    [] v.t = "object" -> "[object Object]"
    [] OTHER -> v.s

\* Array.prototype.join(","): null and undefined elements give "".
RECURSIVE JoinComma(_)
JoinComma(a) ==
  IF a = <<>> THEN ""
  ELSE LET h == IF Nullish(Head(a)) THEN "" ELSE ScalarString(Head(a))
       IN IF Len(a) = 1 THEN h ELSE h \o "," \o JoinComma(Tail(a))

\* String(v)
JsString(v) == IF v.t = "array" THEN JoinComma(v.a) ELSE ScalarString(v)

\* String(v ?? "")
StringOrEmpty(v) == JsString(Coalesce(v, JsStr("")))

\* v ? String(v) : null
StringOrNull(v) == IF Truthy(v) THEN Some(JsString(v)) ELSE Null

\* Mutant: a lone string is taken as a list of one tag.
StringListLenient(v) ==
  IF v.t = "array" THEN [i \in 1..Len(v.a) |-> JsString(v.a[i])]
  ELSE IF v.t = "string" THEN <<v.s>> ELSE <<>>

\* Array.isArray(v) ? v.map(String) : []
StringList(v) ==
  IF v.t = "array" THEN [i \in 1..Len(v.a) |-> JsString(v.a[i])] ELSE <<>>

\* ------------------------------------------------------------------- mappers
mapEventStamped(sourceUrl, event) ==
  [source_url |-> sourceUrl,
   title |-> StringOrEmpty(Field(event, "title")),
   description |-> StringOrEmpty(Field(event, "description")),
   start_time |-> StringOrNull(Field(event, "start_time")),
   end_time |-> StringOrNull(Field(event, "end_time")),
   location_name |-> StringOrEmpty(Field(event, "location_name")),
   address |-> StringOrEmpty(Field(event, "address")),
   website |-> StringOrEmpty(Field(event, "website")),
   tags |-> StringList(Field(event, "tags")),
   price |-> StringOrNull(Field(event, "price")),
   age_range |-> StringOrNull(Field(event, "age_range")),
   image_url |-> StringOrNull(Field(event, "image_url")),
   approved |-> FALSE]

\* Mutant: the raw record's own approved flag survives the mapping.
mapEventTrusting(sourceUrl, event) ==
  [mapEventStamped(sourceUrl, event) EXCEPT
     !.approved = Truthy(Field(event, "approved"))]

mapEvent(sourceUrl, event) == mapEventStamped(sourceUrl, event)

mapEvents(sourceUrl, evs) == [i \in 1..Len(evs) |-> mapEvent(sourceUrl, evs[i])]

mapPlace(sourceUrl, place) ==
  [source_url |-> sourceUrl,
   name |-> StringOrEmpty(Field(place, "name")),
   description |-> StringOrEmpty(Field(place, "description")),
   category |-> StringOrEmpty(Field(place, "category")),
   address |-> StringOrEmpty(Field(place, "address")),
   website |-> StringOrEmpty(Field(place, "website")),
   family_friendly |-> Truthy(Field(place, "family_friendly")),
   tags |-> StringList(Field(place, "tags")),
   price |-> StringOrNull(Field(place, "price")),
   age_range |-> StringOrNull(Field(place, "age_range")),
   image_url |-> StringOrNull(Field(place, "image_url")),
   approved |-> FALSE]

mapPlaces(sourceUrl, pls) == [i \in 1..Len(pls) |-> mapPlace(sourceUrl, pls[i])]

\* --------------------------------------------------------------- input space
Urls == {"https://x.com/cal"}
CrawlTypes == {"events", "places"}

\* Raw records as the extraction service may return them: well formed, and
\* loosely typed with missing fields and stray keys.
EventSamples ==
  << [title |-> JsStr("Story Time"), description |-> JsStr("Kids stories"),
      start_time |-> JsStr("2025-01-01"), tags |-> JsArr(<<JsStr("kids")>>)],
     [title |-> JsNull, tags |-> JsNull, approved |-> JsBool(TRUE),
      source_url |-> JsStr("https://other.example")] >>
PlaceSamples ==
  << [name |-> JsStr("Kids Museum"), family_friendly |-> JsBool(TRUE),
      tags |-> JsArr(<<JsStr("indoor"), JsStr("educational")>>)],
     [category |-> JsNum("7"), approved |-> JsBool(TRUE),
      source_url |-> JsStr("https://other.example")] >>

\* The first n raw records of a payload, cycling through the samples.
RawList(samples, n) == [i \in 1..n |-> samples[((i - 1) % Len(samples)) + 1]]

\* What one call of fetchFn can produce.  kind "throw": the promise rejects
\* (network failure, aborted/timed-out request); "http": a response with
\* ok = false; "json": a response with ok = true and a parsed body.  A call
\* that never answers is the run staying at pc = "fetching".
Outcome(kind, status, success, error, evs, pls) ==
  [kind |-> kind, status |-> status, success |-> success, error |-> error,
   events |-> evs, places |-> pls]
NoOutcome == Outcome("none", 0, FALSE, Null, <<>>, <<>>)
HttpFailures == {500}
\* A non-empty payload also carries one record under the other category's key.
Stray(n) == IF n = 0 THEN 0 ELSE 1
ProviderErrors == {Null, Some("Rate limited")}
ScrapeOutcomes(type) ==
  {Outcome("throw", 0, FALSE, Null, <<>>, <<>>)}
  \cup {Outcome("http", st, FALSE, Null, <<>>, <<>>) : st \in HttpFailures}
  \cup {Outcome("json", 200, FALSE, e, <<>>, <<>>) : e \in ProviderErrors}
  \cup {Outcome("json", 200, TRUE, Null,
                RawList(EventSamples, IF type = "events" THEN n ELSE Stray(n)),
                RawList(PlaceSamples, IF type = "places" THEN n ELSE Stray(n)))
          : n \in 0..MaxRecords}

\* ------------------------------------------------------------------- state
VARIABLES
  firecrawlApiKey,  \* handler option; "" when FIRECRAWL_API_KEY is not set
  storeFaulty,      \* the store may reject a status write (fixed per behaviour)
  sources,          \* table crawl_sources: a set of rows
  events,           \* table events: a bag of rows
  places,           \* table places: a bag of rows
  clock,            \* what new Date() returns next
  runs,             \* the invocations of the /crawl handler in flight: a bag
  created,          \* how many invocations there have been
  lastReply,        \* how the invocation that ended last ended
  crawlSources,     \* the admin UI's cached crawl_sources query result
  crawlJobs,        \* table crawl_jobs: a set of rows (job-queue variant)
  sweeps,           \* the invocations of the /refresh sweep in flight: a bag
  swept,            \* how many sweep invocations there have been
  lastSummary,      \* how the sweep that ended last ended
  normalizeIn,      \* the arguments of a mapper call: sourceUrl and raw records
  normalizeOut      \* what mapEvents and mapPlaces returned for them

\* The state only the job-queue variant changes.
queueVars == <<crawlJobs, sweeps, swept, lastSummary>>

\* The state only a bare call of the mappers changes.
mapVars == <<normalizeIn, normalizeOut>>

vars == <<firecrawlApiKey, storeFaulty, sources, events, places, clock, runs,
          created, lastReply, crawlSources, queueVars, mapVars>>

\* -------------------------------------------------------------- crawl_sources
SourceRow(id, url, type, status, err, last) ==
  [id |-> id, source_url |-> url, source_type |-> type, crawl_status |-> status,
   error_message |-> err, last_crawled_at |-> last]

RowsOf(S, url, type) == {r \in S : r.source_url = url /\ r.source_type = type}

\* gen_random_uuid(): an id no row has.
NewId(S) == Cardinality(S) + 1

\* crawl_status of the row of (url, type); "none" when there is no row.
StatusOf(S, url, type) ==
  IF RowsOf(S, url, type) = {} THEN "none"
  ELSE (CHOOSE r \in RowsOf(S, url, type) : TRUE).crawl_status

\* .upsert({source_url, source_type, crawl_status: "pending", error_message:
\* null}, {onConflict: "source_url,source_type"})
UpsertPending(S, url, type) ==
  IF RowsOf(S, url, type) = {}
  THEN S \cup {SourceRow(NewId(S), url, type, "pending", Null, Null)}
  ELSE {IF r \in RowsOf(S, url, type)
        THEN [r EXCEPT !.crawl_status = "pending", !.error_message = Null]
        ELSE r : r \in S}

\* Mutant: the re-crawl resets the row to the column's default status.
UpdateIdleById(S, id) ==
  {IF r.id = id
   THEN [r EXCEPT !.crawl_status = "idle", !.error_message = Null]
   ELSE r : r \in S}

\* .update({crawl_status: "pending", error_message: null}).eq("id", id)
UpdatePendingById(S, id) ==
  {IF r.id = id
   THEN [r EXCEPT !.crawl_status = "pending", !.error_message = Null]
   ELSE r : r \in S}

\* Mutant: the update writes the status and leaves error_message as it was
\* unless a new message is given.
updateCrawlStatusKeepError(S, sourceUrl, sourceType, status, errorMessage, now) ==
  {IF r \in RowsOf(S, sourceUrl, sourceType)
   THEN [r EXCEPT !.crawl_status = status,
                  !.error_message = IF errorMessage = Null THEN @ ELSE errorMessage,
                  !.last_crawled_at = IF status = "completed" THEN Some(now) ELSE @]
   ELSE r : r \in S}

\* Mutant: the update leaves alone a row that already is completed or failed,
\* so the first attempt to finish decides the row.
updateCrawlStatusOnce(S, sourceUrl, sourceType, status, errorMessage, now) ==
  {IF r \in RowsOf(S, sourceUrl, sourceType)
        /\ r.crawl_status \notin {"completed", "failed"}
   THEN [r EXCEPT !.crawl_status = status,
                  !.error_message = errorMessage,
                  !.last_crawled_at = IF status = "completed" THEN Some(now) ELSE @]
   ELSE r : r \in S}

\* Mutant: every status update stamps last_crawled_at.
updateCrawlStatusStamping(S, sourceUrl, sourceType, status, errorMessage, now) ==
  {IF r \in RowsOf(S, sourceUrl, sourceType)
   THEN [r EXCEPT !.crawl_status = status,
                  !.error_message = errorMessage,
                  !.last_crawled_at = Some(now)]
   ELSE r : r \in S}

\* updateCrawlStatus: one UPDATE of every row matching (source_url,
\* source_type); errorMessage is Null when the argument is omitted.
updateCrawlStatus(S, sourceUrl, sourceType, status, errorMessage, now) ==
  {IF r \in RowsOf(S, sourceUrl, sourceType)
   THEN [r EXCEPT !.crawl_status = status,
                  !.error_message = errorMessage,
                  !.last_crawled_at = IF status = "completed" THEN Some(now) ELSE @]
   ELSE r : r \in S}

\* The handler awaits the update and never reads its result: a write the
\* store rejects (ok = FALSE) changes nothing and the handler goes on.
StatusWrite(S, ok, sourceUrl, sourceType, status, errorMessage, now) ==
  IF ok THEN updateCrawlStatus(S, sourceUrl, sourceType, status, errorMessage, now)
  ELSE S

\* The results a status write can have in this behaviour.
WriteResults == IF storeFaulty THEN BOOLEAN ELSE {TRUE}

\* ------------------------------------------------------------ handler runs
\* How an invocation ended: the HTTP response the handler returned, or
\* kind "rejected" when the handler's promise rejected and it returned none.
\* url, type name the request; lost: a status write of the invocation was
\* rejected by the store.
Reply(kind, url, type, status, error, insertedEvents, insertedPlaces, lost) ==
  [kind |-> kind, url |-> url, type |-> type, status |-> status, error |-> error,
   insertedEvents |-> insertedEvents, insertedPlaces |-> insertedPlaces,
   lost |-> lost]
NoReply == Reply("none", "", "", 0, Null, 0, 0, FALSE)

\* One invocation of the handler.  url, type: the request payload; pc: the
\* await the run is at; resp: what fetchFn returned; insertedEvents,
\* insertedPlaces: the handler's counters.
\* History fields, written and never read by the program: guarded (the row
\* showed pending or crawling when the submission began), lost.
NewRun(url, type, atSubmit) ==
  [url |-> url, type |-> type, guarded |-> atSubmit \in {"pending", "crawling"},
   pc |-> "invoked", resp |-> NoOutcome,
   insertedEvents |-> 0, insertedPlaces |-> 0, lost |-> FALSE]

\* fetchFn has been called by the run.
Called(r) == r.pc \in {"fetching", "ingest", "completing"}

Running == BagToSet(runs)
InFlight == BagCardinality(runs)

\* The run r goes on as q.
Continue(r, q) == runs' = (runs (-) SetToBag({r})) (+) SetToBag({q})

\* The run r ends.
End(r, kind, status, error, ok) ==
  /\ runs' = runs (-) SetToBag({r})
  /\ lastReply' = Reply(kind, r.url, r.type, status, error, r.insertedEvents,
                        r.insertedPlaces, r.lost \/ ~ok)

\* Step 1 of the handler (part_002 lines 211-224), with the credential check.
HandlerStartChecked(r) ==
  /\ r.pc = "invoked"
  /\ \E ok \in WriteResults :
       IF firecrawlApiKey = ""
       THEN /\ sources' = StatusWrite(sources, ok, r.url, r.type, "failed",
                                      Some("Missing FIRECRAWL_API_KEY"), clock)
            /\ End(r, "response", 500, Some("Missing FIRECRAWL_API_KEY"), ok)
       ELSE /\ sources' = StatusWrite(sources, ok, r.url, r.type, "crawling",
                                      Null, clock)
            /\ Continue(r, [r EXCEPT !.pc = "fetching", !.lost = ~ok])
            /\ UNCHANGED lastReply
  /\ UNCHANGED <<queueVars, mapVars, firecrawlApiKey, storeFaulty, events, places, clock, created,
                 crawlSources>>

\* Mutant: the handler without the credential check, which goes on to call
\* the extraction service with an empty key.
HandlerStartUnchecked(r) ==
  /\ r.pc = "invoked"
  /\ \E ok \in WriteResults :
       /\ sources' = StatusWrite(sources, ok, r.url, r.type, "crawling", Null, clock)
       /\ Continue(r, [r EXCEPT !.pc = "fetching", !.lost = ~ok])
  /\ UNCHANGED <<queueVars, mapVars, firecrawlApiKey, storeFaulty, events, places, clock, created,
                 lastReply, crawlSources>>

HandlerStart(r) == HandlerStartChecked(r)

\* Step 2: fetchFn settles with answer o (part_002 lines 237-273).  A
\* rejected promise is not caught anywhere in the handler: the run ends there
\* and writes nothing.
FetchAnswer(r, o) ==
  /\ r.pc = "fetching"
  /\ CASE o.kind = "throw" ->
            /\ End(r, "rejected", 0, Some("fetch rejected"), TRUE)
            /\ UNCHANGED sources
       [] o.kind = "http" ->
            \E ok \in WriteResults :
              /\ sources' = StatusWrite(sources, ok, r.url, r.type, "failed",
                   Some("Firecrawl request failed: " \o ToString(o.status)),
                   clock)
              /\ End(r, "response", 502, Some("Firecrawl request failed"), ok)
       [] o.kind = "json" /\ ~o.success ->
            \E ok \in WriteResults :
              /\ sources' = StatusWrite(sources, ok, r.url, r.type, "failed",
                   IF o.error = Null THEN Some("Firecrawl scrape failed")
                   ELSE o.error, clock)
              /\ End(r, "response", 502, Some("Firecrawl scrape failed"), ok)
       [] OTHER ->
            /\ Continue(r, [r EXCEPT !.pc = "ingest", !.resp = o])
            /\ UNCHANGED <<sources, lastReply>>
  /\ UNCHANGED <<queueVars, mapVars, firecrawlApiKey, storeFaulty, events, places, clock,
                 created, crawlSources>>

FetchReturn(r) == \E o \in ScrapeOutcomes(r.type) : FetchAnswer(r, o)

\* The message of a rejected bulk insert.
InsertErrorMessage == "insert failed"

\* The records the run maps from its payload for its own category.
Mapped(r) ==
  IF r.type = "events" THEN mapEvents(r.url, r.resp.events)
  ELSE mapPlaces(r.url, r.resp.places)

\* The rows of a bulk insert, as a bag.
RECURSIVE BagOfSeq(_)
BagOfSeq(rows) ==
  IF rows = <<>> THEN EmptyBag ELSE SetToBag({Head(rows)}) (+) BagOfSeq(Tail(rows))

\* .insert(rows): one statement, it adds every row or none.
InsertAll(table, rows) == table (+) BagOfSeq(rows)

\* Mutant: a bulk insert that commits the first row only.
InsertFirst(table, rows) == table (+) BagOfSeq(<<Head(rows)>>)

Insert(table, rows) == InsertAll(table, rows)

\* Step 3: map and bulk-insert (part_002 lines 275-309).  With nothing to
\* insert the handler goes straight on to the final status write (line 312).
Ingest(r) ==
  LET rows == Mapped(r) IN
  /\ r.pc = "ingest"
  /\ IF Len(rows) = 0
     THEN \E ok \in WriteResults :
            /\ sources' = StatusWrite(sources, ok, r.url, r.type, "completed",
                                      Null, clock)
            /\ clock' = clock + 1
            /\ End(r, "response", 200, Null, ok)
            /\ UNCHANGED <<events, places>>
     ELSE \/ /\ events' = IF r.type = "events" THEN Insert(events, rows) ELSE events
             /\ places' = IF r.type = "places" THEN Insert(places, rows) ELSE places
             /\ Continue(r, [r EXCEPT
                  !.pc = "completing", !.resp = NoOutcome,
                  !.insertedEvents = IF r.type = "events" THEN Len(rows) ELSE 0,
                  !.insertedPlaces = IF r.type = "places" THEN Len(rows) ELSE 0])
             /\ UNCHANGED <<sources, clock, lastReply>>
          \/ \E ok \in WriteResults :
               /\ sources' = StatusWrite(sources, ok, r.url, r.type, "failed",
                                         Some(InsertErrorMessage), clock)
               /\ End(r, "response", 500, Some(InsertErrorMessage), ok)
               /\ UNCHANGED <<events, places, clock>>
  /\ UNCHANGED <<queueVars, mapVars, firecrawlApiKey, storeFaulty, created, crawlSources>>

\* Step 4: the final status write and the 200 response (part_002 lines 311-325).
Complete(r) ==
  /\ r.pc = "completing"
  /\ \E ok \in WriteResults :
       /\ sources' = StatusWrite(sources, ok, r.url, r.type, "completed", Null, clock)
       /\ End(r, "response", 200, Null, ok)
  /\ clock' = clock + 1
  /\ UNCHANGED <<queueVars, mapVars, firecrawlApiKey, storeFaulty, events, places, created,
                 crawlSources>>

\* ------------------------------------------------------------------ admin UI
\* The request reaches the handler: a new invocation.
Invoke(url, type, atSubmit) ==
  /\ runs' = runs (+) SetToBag({NewRun(url, type, atSubmit)})
  /\ created' = created + 1

\* handleCrawlSubmit (App.tsx lines 1902-1952): upsert the row to pending,
\* refresh the cached list, then fire the request at the handler without
\* awaiting it.  A failed upsert ends the submission with a status line only.
handleCrawlSubmit(crawlUrl, crawlType) ==
  /\ created < MaxRuns
  /\ \/ /\ sources' = UpsertPending(sources, crawlUrl, crawlType)
        /\ crawlSources' = sources'
        /\ Invoke(crawlUrl, crawlType, StatusOf(sources, crawlUrl, crawlType))
     \/ UNCHANGED <<sources, crawlSources, runs, created>>
  /\ UNCHANGED <<queueVars, mapVars, firecrawlApiKey, storeFaulty, events, places, clock, lastReply>>

\* The Re-crawl button of a row of the cached list is disabled while that
\* cached row shows pending or crawling (CrawlSourcesTab, part_013 line 193).
isCrawling(source) == source.crawl_status \in {"pending", "crawling"}

\* handleRecrawl (App.tsx lines 1954-1980): update the row to pending by id
\* (result not read), refresh the cached list, fire the request.
handleRecrawl(source) ==
  /\ created < MaxRuns
  /\ source \in crawlSources
  /\ ~isCrawling(source)
  /\ \E ok \in WriteResults :
       sources' = IF ok THEN UpdatePendingById(sources, source.id) ELSE sources
  /\ crawlSources' = sources'
  /\ Invoke(source.source_url, source.source_type,
            StatusOf(sources, source.source_url, source.source_type))
  /\ UNCHANGED <<queueVars, mapVars, firecrawlApiKey, storeFaulty, events, places, clock, lastReply>>

\* A POST {url, type} sent to the /crawl endpoint by any other client.
DirectPost(url, type) ==
  /\ created < MaxRuns
  /\ Invoke(url, type, StatusOf(sources, url, type))
  /\ UNCHANGED <<queueVars, mapVars, firecrawlApiKey, storeFaulty, sources, events, places, clock,
                 lastReply, crawlSources>>

\* crawlSourcesQuery refetches (polling every 3 s while a crawl is active,
\* or after invalidateQueries).
RefreshSources ==
  /\ crawlSources # sources
  /\ crawlSources' = sources
  /\ UNCHANGED <<queueVars, mapVars, firecrawlApiKey, storeFaulty, sources, events, places, clock,
                 runs, created, lastReply>>

\* ========================================================= job-queue variant
\* The handler of src/unnamed/part_003 (lines 112-440): /crawl queues a job at
\* the extraction service and records it in crawl_jobs; /refresh polls every
\* pending job and ingests the finished ones.
sweepMapEvent(sourceUrl, event) ==
  [source_url |-> sourceUrl,
   title |-> StringOrEmpty(Field(event, "title")),
   description |-> StringOrEmpty(Field(event, "description")),
   start_time |-> StringOrNull(Field(event, "start_time")),
   end_time |-> StringOrNull(Field(event, "end_time")),
   location_name |-> StringOrEmpty(Field(event, "location_name")),
   address |-> StringOrEmpty(Field(event, "address")),
   website |-> StringOrEmpty(Field(event, "website")),
   tags |-> StringList(Field(event, "tags")),
   approved |-> FALSE]

sweepMapEvents(sourceUrl, evs) ==
  [i \in 1..Len(evs) |-> sweepMapEvent(sourceUrl, evs[i])]

sweepMapPlace(sourceUrl, place) ==
  [source_url |-> sourceUrl,
   name |-> StringOrEmpty(Field(place, "name")),
   description |-> StringOrEmpty(Field(place, "description")),
   category |-> StringOrEmpty(Field(place, "category")),
   address |-> StringOrEmpty(Field(place, "address")),
   website |-> StringOrEmpty(Field(place, "website")),
   family_friendly |-> Truthy(Field(place, "family_friendly")),
   tags |-> StringList(Field(place, "tags")),
   approved |-> FALSE]

sweepMapPlaces(sourceUrl, pls) ==
  [i \in 1..Len(pls) |-> sweepMapPlace(sourceUrl, pls[i])]

\* A crawl_jobs row (migration 20250314000000_create_crawl_jobs.sql).
JobRow(id, jobId, url, type, status, err, done) ==
  [id |-> id, firecrawl_job_id |-> jobId, source_url |-> url, crawl_type |-> type,
   status |-> status, error_message |-> err, completed_at |-> done]

\* Mutant: the update writes status and error_message and leaves
\* completed_at as it was.
UpdateJobUnstamped(J, id, status, err, now) ==
  {IF j.id = id
   THEN [j EXCEPT !.status = status, !.error_message = err]
   ELSE j : j \in J}

\* .update({status, error_message, completed_at: now}).eq("id", id)
UpdateJob(J, id, status, err, now) ==
  {IF j.id = id
   THEN [j EXCEPT !.status = status, !.error_message = err,
                  !.completed_at = Some(now)]
   ELSE j : j \in J}

\* The updates that mark a job failed are awaited and their result is never
\* read: a rejected one (ok = FALSE) changes nothing and the sweep goes on.
FailJob(J, ok, id, err, now) == IF ok THEN UpdateJob(J, id, "failed", err, now) ELSE J

\* .insert({source_url, source_type}) into crawl_sources: a new row each
\* time; the columns a later migration adds hold their defaults.
InsertSource(S, url, type) ==
  S \cup {SourceRow(NewId(S), url, type, "idle", Null, Null)}

\* What the POST that queues an extraction can produce (lines 379-413).
Queued(kind, status, id) == [kind |-> kind, status |-> status, id |-> id]
QueueOutcomes(n) ==
  {Queued("throw", 0, Null)}
  \cup {Queued("http", st, Null) : st \in HttpFailures}
  \cup {Queued("json", 200, Null), Queued("json", 200, Some("fc-" \o ToString(n)))}

\* What the GET that polls a job can produce (lines 209-255).
Poll(kind, http, status, error, evs, pls) ==
  [kind |-> kind, http |-> http, status |-> status, error |-> error,
   events |-> evs, places |-> pls]
NoPoll == Poll("none", 0, "", Null, <<>>, <<>>)
PollOutcomes(type) ==
  {Poll("throw", 0, "", Null, <<>>, <<>>)}
  \cup {Poll("http", st, "", Null, <<>>, <<>>) : st \in HttpFailures}
  \cup {Poll("json", 200, "processing", Null, <<>>, <<>>)}
  \cup {Poll("json", 200, "failed", e, <<>>, <<>>) : e \in ProviderErrors}
  \cup {Poll("json", 200, "cancelled", Null, <<>>, <<>>)}
  \cup {Poll("json", 200, "completed", Null,
             RawList(EventSamples, IF type = "events" THEN n ELSE Stray(n)),
             RawList(PlaceSamples, IF type = "places" THEN n ELSE Stray(n)))
          : n \in 0..MaxRecords}

\* ------------------------------------------------------- /crawl, job-queue
\* A /crawl invocation of this variant; n numbers the invocations.
NewQueueRun(url, type, n) == NewRun(url, type, "none") @@ [n |-> n]

\* Lines 362-386: the credential check, then the POST to the service.
QueueStart(r) ==
  /\ r.pc = "invoked"
  /\ IF firecrawlApiKey = ""
     THEN End(r, "response", 500, Some("Missing FIRECRAWL_API_KEY"), TRUE)
     ELSE /\ Continue(r, [r EXCEPT !.pc = "queueing"])
          /\ UNCHANGED lastReply
  /\ UNCHANGED <<queueVars, mapVars, firecrawlApiKey, storeFaulty, sources, events,
                 places, clock, created, crawlSources>>

\* Lines 388-413: the POST settles.
QueueReturn(r) ==
  /\ r.pc = "queueing"
  /\ \E o \in QueueOutcomes(r.n) :
       CASE o.kind = "throw" -> End(r, "rejected", 0, Some("fetch rejected"), TRUE)
         [] o.kind = "http" ->
              End(r, "response", 502, Some("Firecrawl request failed"), TRUE)
         [] o.id = Null ->
              End(r, "response", 502, Some("Firecrawl did not return a job id"), TRUE)
         [] OTHER -> /\ Continue(r, [r EXCEPT !.pc = "inserting", !.resp = o])
                     /\ UNCHANGED lastReply
  /\ UNCHANGED <<queueVars, mapVars, firecrawlApiKey, storeFaulty, sources, events,
                 places, clock, created, crawlSources>>

\* Lines 415-438: the crawl_jobs insert and the response.
QueueInsert(r) ==
  /\ r.pc = "inserting"
  /\ \/ /\ crawlJobs' = crawlJobs \cup
             {JobRow(NewId(crawlJobs), r.resp.id[1], r.url, r.type, "pending",
                     Null, Null)}
        /\ End(r, "response", 200, Null, TRUE)
     \/ /\ End(r, "response", 500, Some(InsertErrorMessage), TRUE)
        /\ UNCHANGED crawlJobs
  /\ UNCHANGED <<sweeps, swept, lastSummary, mapVars, firecrawlApiKey, storeFaulty,
                 sources, events, places, clock, created, crawlSources>>

QueueStep(r) ==
  \/ QueueStart(r)
  \/ QueueReturn(r)
  \/ QueueInsert(r)

\* handleCrawlSubmit of this variant (App.tsx lines 3083-3111): the request
\* is sent to /crawl and nothing is written by the client.
handleCrawlSubmitQueued(crawlUrl, crawlType) ==
  /\ created < MaxRuns
  /\ runs' = runs (+) SetToBag({NewQueueRun(crawlUrl, crawlType, created + 1)})
  /\ created' = created + 1
  /\ UNCHANGED <<queueVars, mapVars, firecrawlApiKey, storeFaulty, sources, events,
                 places, clock, lastReply, crawlSources>>

\* ---------------------------------------------------------------- /refresh
\* One invocation of the sweep.  jobs: the pending jobs it read and has not
\* handled yet; resp: the poll answer being ingested; the rest are the
\* handler's counters (lines 199-205).
\* History fields, written and never read by the program: answer (the status
\* of the poll answer the job in hand is being ingested for), read (how many
\* jobs the select returned), batch (the records inserted for the job in
\* hand), credited (the records inserted for the jobs counted as completed).
NewSweep ==
  [pc |-> "invoked", jobs |-> <<>>, resp |-> NoPoll, answer |-> "", read |-> 0,
   batch |-> 0, credited |-> 0, processed |-> 0,
   completed |-> 0, failed |-> 0, pending |-> 0,
   insertedEvents |-> 0, insertedPlaces |-> 0]

\* How a sweep ended: the summary it returned (status 200), an error
\* response, or kind "rejected" when its promise rejected.
Summary(kind, status, error, s) ==
  [kind |-> kind, status |-> status, error |-> error, processed |-> s.processed,
   completed |-> s.completed, failed |-> s.failed, pending |-> s.pending,
   insertedEvents |-> s.insertedEvents, insertedPlaces |-> s.insertedPlaces]
NoSummary == Summary("none", 0, Null, NewSweep)

Sweeping == BagToSet(sweeps)

SweepContinue(s, q) ==
  /\ sweeps' = (sweeps (-) SetToBag({s})) (+) SetToBag({q})
  /\ UNCHANGED lastSummary

SweepEnd(s, kind, status, error, q) ==
  /\ sweeps' = sweeps (-) SetToBag({s})
  /\ lastSummary' = Summary(kind, status, error, q)

\* `continue` / the end of the loop body: on to the next job, or out of the
\* loop to the summary (lines 325-338) when this was the last one.
Advance(s, q) ==
  IF Len(s.jobs) = 1 THEN SweepEnd(s, "response", 200, Null, q)
  ELSE SweepContinue(s, [q EXCEPT !.pc = "poll", !.jobs = Tail(s.jobs),
                                  !.resp = NoPoll, !.answer = "", !.batch = 0])

\* The orders in which a select can return the rows of a set.
SeqsOf(S) ==
  {q \in [1..Cardinality(S) -> S] :
     \A i, j \in 1..Cardinality(S) : q[i] = q[j] => i = j}

\* Lines 176-199: the credential check and the select of the pending jobs.
SweepStart(s) ==
  /\ s.pc = "invoked"
  /\ IF firecrawlApiKey = ""
     THEN SweepEnd(s, "response", 500, Some("Missing FIRECRAWL_API_KEY"), s)
     ELSE \/ \E q \in SeqsOf({j \in crawlJobs : j.status = "pending"}) :
               IF q = <<>> THEN SweepEnd(s, "response", 200, Null, s)
               ELSE SweepContinue(s, [s EXCEPT !.pc = "poll", !.jobs = q,
                                               !.read = Len(q)])
          \/ SweepEnd(s, "response", 500, Some("select failed"), s)
  /\ UNCHANGED <<crawlJobs, swept, mapVars, firecrawlApiKey, storeFaulty, sources,
                 events, places, clock, runs, created, lastReply, crawlSources>>

\* Mutant: every job is counted as failed.
TallyFailed(s, counter) == [s EXCEPT !.failed = @ + 1]

\* failed += 1, pending += 1, completed += 1
Tally(s, counter) == [s EXCEPT ![counter] = @ + 1]

\* error ?? fallback
OrDefault(error, fallback) == IF error = Null THEN Some(fallback) ELSE error

\* Lines 207-255: the poll of the next job settles with answer o.  A rejected
\* fetch is caught nowhere.
SweepAnswer(s, o) ==
  LET job == Head(s.jobs)
      p == [s EXCEPT !.processed = @ + 1]
  IN
  /\ s.pc = "poll"
  /\ CASE o.kind = "throw" ->
            /\ SweepEnd(s, "rejected", 0, Some("fetch rejected"), p)
            /\ UNCHANGED <<crawlJobs, clock>>
       [] o.kind = "http" ->
            \E ok \in WriteResults :
              /\ crawlJobs' = FailJob(crawlJobs, ok, job.id,
                   Some("Firecrawl status failed: " \o ToString(o.http)), clock)
              /\ clock' = clock + 1
              /\ Advance(s, Tally(p, "failed"))
       [] o.status = "processing" ->
            /\ Advance(s, Tally(p, "pending"))
            /\ UNCHANGED <<crawlJobs, clock>>
       [] o.status = "failed" ->
            \E ok \in WriteResults :
              /\ crawlJobs' = FailJob(crawlJobs, ok, job.id,
                   OrDefault(o.error, "Firecrawl job failed"), clock)
              /\ clock' = clock + 1
              /\ Advance(s, Tally(p, "failed"))
       [] OTHER ->
            /\ SweepContinue(s, [p EXCEPT !.resp = o, !.answer = o.status,
                 !.pc = IF (IF job.crawl_type = "events" THEN o.events
                            ELSE o.places) = <<>>
                        THEN "record" ELSE "ingest"])
            /\ UNCHANGED <<crawlJobs, clock>>
  /\ UNCHANGED <<swept, mapVars, firecrawlApiKey, storeFaulty, sources, events, places,
                 runs, created, lastReply, crawlSources>>

SweepPoll(s) ==
  /\ s.pc = "poll"
  /\ \E o \in PollOutcomes(Head(s.jobs).crawl_type) : SweepAnswer(s, o)

\* Lines 257-291: map the payload and bulk-insert it.
SweepIngest(s) ==
  LET job == Head(s.jobs)
      rows == IF job.crawl_type = "events"
              THEN sweepMapEvents(job.source_url, s.resp.events)
              ELSE sweepMapPlaces(job.source_url, s.resp.places)
  IN
  /\ s.pc = "ingest"
  /\ \/ /\ events' = IF job.crawl_type = "events" THEN Insert(events, rows)
                     ELSE events
        /\ places' = IF job.crawl_type = "places" THEN Insert(places, rows)
                     ELSE places
        /\ SweepContinue(s, [s EXCEPT
             !.pc = "record", !.resp = NoPoll, !.batch = Len(rows),
             !.insertedEvents =
                IF job.crawl_type = "events" THEN @ + Len(rows) ELSE @,
             !.insertedPlaces =
                IF job.crawl_type = "places" THEN @ + Len(rows) ELSE @])
        /\ UNCHANGED <<crawlJobs, clock>>
     \/ \E ok \in WriteResults :
          /\ crawlJobs' = FailJob(crawlJobs, ok, job.id, Some(InsertErrorMessage),
                                  clock)
          /\ clock' = clock + 1
          /\ Advance(s, Tally(s, "failed"))
          /\ UNCHANGED <<events, places>>
  /\ UNCHANGED <<swept, mapVars, firecrawlApiKey, storeFaulty, sources, runs, created,
                 lastReply, crawlSources>>

\* Lines 293-307: record the crawl source.
SweepRecord(s) ==
  LET job == Head(s.jobs) IN
  /\ s.pc = "record"
  /\ \/ /\ sources' = InsertSource(sources, job.source_url, job.crawl_type)
        /\ SweepContinue(s, [s EXCEPT !.pc = "complete", !.resp = NoPoll])
        /\ UNCHANGED <<crawlJobs, clock>>
     \/ \E ok \in WriteResults :
          /\ crawlJobs' = FailJob(crawlJobs, ok, job.id, Some(InsertErrorMessage),
                                  clock)
          /\ clock' = clock + 1
          /\ Advance(s, Tally(s, "failed"))
          /\ UNCHANGED sources
  /\ UNCHANGED <<swept, mapVars, firecrawlApiKey, storeFaulty, events, places, runs,
                 created, lastReply, crawlSources>>

\* Lines 309-322: mark the job completed; an error of this update ends the
\* sweep with a 500.
SweepComplete(s) ==
  LET job == Head(s.jobs) IN
  /\ s.pc = "complete"
  /\ \/ /\ crawlJobs' = UpdateJob(crawlJobs, job.id, "completed", Null, clock)
        /\ clock' = clock + 1
        /\ Advance(s, Tally([s EXCEPT !.credited = @ + s.batch], "completed"))
     \/ /\ SweepEnd(s, "response", 500, Some("update failed"), s)
        /\ UNCHANGED <<crawlJobs, clock>>
  /\ UNCHANGED <<swept, mapVars, firecrawlApiKey, storeFaulty, sources, events, places,
                 runs, created, lastReply, crawlSources>>

SweepStep(s) ==
  \/ SweepStart(s)
  \/ SweepPoll(s)
  \/ SweepIngest(s)
  \/ SweepRecord(s)
  \/ SweepComplete(s)

\* handleRefreshJobs (App.tsx lines 3113-3144), or any client's request to
\* /refresh: a new invocation of the sweep.
handleRefreshJobs ==
  /\ swept < MaxSweeps
  /\ sweeps' = sweeps (+) SetToBag({NewSweep})
  /\ swept' = swept + 1
  /\ UNCHANGED <<crawlJobs, lastSummary, mapVars, firecrawlApiKey, storeFaulty, sources,
                 events, places, clock, runs, created, lastReply, crawlSources>>

\* -------------------------------------------------------------- specification
\* A row left by an earlier version of the handler: the migration gave it
\* crawl_status 'idle' and no error_message.
LegacyRow(url, type) == SourceRow(1, url, type, "idle", Null, Null)

InitStore ==
  /\ firecrawlApiKey \in {"", "test-key"}
  /\ sources \in {{}} \cup {{LegacyRow(u, "events")} : u \in Urls}
  /\ events = EmptyBag
  /\ places = EmptyBag
  /\ clock = 1
  /\ runs = EmptyBag
  /\ created = 0
  /\ lastReply = NoReply
  /\ crawlSources = sources
  /\ crawlJobs = {}
  /\ sweeps = EmptyBag
  /\ swept = 0
  /\ lastSummary = NoSummary

\* No mapper call outside a handler.
NotMapped == [events |-> Null, places |-> Null]
NoMapping == normalizeIn = [sourceUrl |-> "", records |-> <<>>] /\ normalizeOut = NotMapped

Init == InitStore /\ NoMapping /\ storeFaulty = FALSE

HandlerStep(r) ==
  \/ HandlerStart(r)
  \/ FetchReturn(r)
  \/ Ingest(r)
  \/ Complete(r)

Next ==
  \/ \E u \in Urls, t \in CrawlTypes : handleCrawlSubmit(u, t)
  \/ \E s \in crawlSources : handleRecrawl(s)
  \/ \E u \in Urls, t \in CrawlTypes : DirectPost(u, t)
  \/ RefreshSources
  \/ \E r \in Running : HandlerStep(r)

Spec == Init /\ [][Next]_vars

\* The same program over a store that may reject any single write.
InitFaulty == InitStore /\ NoMapping /\ storeFaulty = TRUE

SpecFaulty == InitFaulty /\ [][Next]_vars

\* The job-queue variant: its tables start empty.
InitQueue == InitStore /\ NoMapping /\ sources = {} /\ storeFaulty = FALSE

NextQueue ==
  \/ \E u \in Urls, t \in CrawlTypes : handleCrawlSubmitQueued(u, t)
  \/ handleRefreshJobs
  \/ \E r \in Running : QueueStep(r)
  \/ \E s \in Sweeping : SweepStep(s)

SpecAsync == InitQueue /\ [][NextQueue]_vars

\* The runtime resumes every handler after each await that settles, and the
\* extraction service is taken to answer or fail every call.
FairSpec == Spec /\ WF_vars(\E r \in Running : HandlerStep(r))

\* ------------------------------------------------------- the mappers alone
\* Values a field of a raw record can hold: absent, null, strings (plain,
\* empty, timestamp-like), numbers, booleans, an object, arrays.
ScalarValues ==
  {JsUndefined, JsNull, JsStr("Story Time"), JsStr(""), JsNum("7"), JsNum("0"),
   JsBool(TRUE), JsBool(FALSE), JsObj}
TimeValues ==
  {JsStr("2025-01-01T10:00:00Z"), JsStr("2025-01-01 10:00"), JsStr("not-a-date")}
ListValues ==
  {JsArr(<<>>), JsArr(<<JsStr("kids")>>),
   JsArr(<<JsNum("7"), JsNull, JsStr("indoor")>>),
   JsArr(<<JsArr(<<JsStr("a"), JsStr("b")>>)>>)}
RawValues == ScalarValues \cup TimeValues \cup ListValues

\* The keys the mappers read, and two they must not trust.
RawFields ==
  {"title", "name", "description", "category", "start_time", "end_time",
   "location_name", "address", "website", "family_friendly", "tags", "price",
   "age_range", "image_url", "approved", "source_url"}

\* A raw record with every field the extraction schema names.
WellFormed ==
  [title |-> JsStr("Story Time"), name |-> JsStr("Kids Museum"),
   description |-> JsStr("Kids stories"), category |-> JsStr("museum"),
   start_time |-> JsStr("2025-01-01T10:00:00Z"),
   end_time |-> JsStr("2025-01-01T11:00:00Z"),
   location_name |-> JsStr("Library"), address |-> JsStr("1 Main St"),
   website |-> JsStr("https://x.com"), family_friendly |-> JsBool(TRUE),
   tags |-> JsArr(<<JsStr("kids")>>), price |-> JsStr("Free"),
   age_range |-> JsStr("3-5"), image_url |-> JsStr("https://x.com/a.png")]

\* WellFormed with field f holding v (without f when v is undefined).
Probe(f, v) ==
  IF v = JsUndefined THEN [g \in DOMAIN WellFormed \ {f} |-> WellFormed[g]]
  ELSE [g \in DOMAIN WellFormed \cup {f} |-> IF g = f THEN v ELSE WellFormed[g]]

\* Lists of n raw records, the k-th being a probe.
RawLists ==
  {<<>>} \cup
  {[i \in 1..n |-> IF i = k THEN Probe(f, v) ELSE WellFormed] :
     n \in 1..MaxRecords, k \in 1..MaxRecords, f \in RawFields, v \in RawValues}

\* mapEvents(sourceUrl, records) is called and returns.
NormalizeEvents ==
  /\ normalizeOut.events = Null
  /\ normalizeOut' = [normalizeOut EXCEPT
       !.events = Some(mapEvents(normalizeIn.sourceUrl, normalizeIn.records))]
  /\ UNCHANGED <<normalizeIn, queueVars, firecrawlApiKey, storeFaulty, sources,
                 events, places, clock, runs, created, lastReply, crawlSources>>

\* mapPlaces(sourceUrl, records) is called and returns.
NormalizePlaces ==
  /\ normalizeOut.places = Null
  /\ normalizeOut' = [normalizeOut EXCEPT
       !.places = Some(mapPlaces(normalizeIn.sourceUrl, normalizeIn.records))]
  /\ UNCHANGED <<normalizeIn, queueVars, firecrawlApiKey, storeFaulty, sources,
                 events, places, clock, runs, created, lastReply, crawlSources>>

InitMapper ==
  /\ InitStore /\ sources = {} /\ firecrawlApiKey = "test-key"
  /\ storeFaulty = FALSE
  /\ normalizeIn \in [sourceUrl : Urls, records : RawLists]
  /\ normalizeOut = NotMapped

NextMapper == NormalizeEvents \/ NormalizePlaces

SpecMapper == InitMapper /\ [][NextMapper]_vars

\* ================================================= handler without tracking
\* The synchronous handler of src/unnamed/part_004 (lines 88-275), the one
\* handler.test.ts exercises: it scrapes, bulk-inserts, records the source
\* with a plain insert and answers; it keeps no crawl_status.
\* inserts: the calls of insert the invocation has made, in order, as the
\* store stub of the tests logs them (handler.test.ts lines 4-12).
NewPlainRun(url, type) == NewRun(url, type, "none") @@ [inserts |-> <<>>]

\* The response of this handler, with the insert calls made for it.
PlainEnd(r, kind, status, error, log) ==
  /\ runs' = runs (-) SetToBag({r})
  /\ lastReply' = Reply(kind, r.url, r.type, status, error, r.insertedEvents,
                        r.insertedPlaces, FALSE) @@ [inserts |-> log]

\* Mutant: both counters take the number of inserted records.
CountedBoth(r, n) == [r EXCEPT !.insertedEvents = n, !.insertedPlaces = n]

\* insertedEvents = events.length / insertedPlaces = places.length
Counted(r, n) ==
  [r EXCEPT !.insertedEvents = IF r.type = "events" THEN n ELSE @,
            !.insertedPlaces = IF r.type = "places" THEN n ELSE @]

\* Lines 166-195: the credential check, then the call of fetchFn.
PlainStart(r) ==
  /\ r.pc = "invoked"
  /\ IF firecrawlApiKey = ""
     THEN PlainEnd(r, "response", 500, Some("Missing FIRECRAWL_API_KEY"), r.inserts)
     ELSE /\ Continue(r, [r EXCEPT !.pc = "fetching"])
          /\ UNCHANGED lastReply
  /\ UNCHANGED <<queueVars, mapVars, firecrawlApiKey, storeFaulty, sources, events,
                 places, clock, created, crawlSources>>

\* Lines 188-222: fetchFn settles with answer o; a rejection is not caught.
PlainAnswer(r, o) ==
  /\ r.pc = "fetching"
  /\ CASE o.kind = "throw" ->
            PlainEnd(r, "rejected", 0, Some("fetch rejected"), r.inserts)
       [] o.kind = "http" ->
            PlainEnd(r, "response", 502, Some("Firecrawl request failed"), r.inserts)
       [] o.kind = "json" /\ ~o.success ->
            PlainEnd(r, "response", 502, Some("Firecrawl scrape failed"), r.inserts)
       [] OTHER ->
            /\ Continue(r, [r EXCEPT !.pc = "ingest", !.resp = o])
            /\ UNCHANGED lastReply
  /\ UNCHANGED <<queueVars, mapVars, firecrawlApiKey, storeFaulty, sources, events,
                 places, clock, created, crawlSources>>

PlainFetch(r) == \E o \in ScrapeOutcomes(r.type) : PlainAnswer(r, o)

\* The records this handler maps from the payload for the run's category.
PlainMapped(r) ==
  IF r.type = "events" THEN mapEvents(r.url, r.resp.events)
  ELSE sweepMapPlaces(r.url, r.resp.places)

\* Lines 224-256: map and bulk-insert; nothing is inserted for an empty list.
PlainIngest(r) ==
  LET rows == PlainMapped(r)
      log == Append(r.inserts, r.type)
  IN
  /\ r.pc = "ingest"
  /\ IF Len(rows) = 0
     THEN /\ Continue(r, [r EXCEPT !.pc = "recording", !.resp = NoOutcome])
          /\ UNCHANGED <<events, places, lastReply>>
     ELSE \/ /\ events' = IF r.type = "events" THEN Insert(events, rows) ELSE events
             /\ places' = IF r.type = "places" THEN Insert(places, rows) ELSE places
             /\ Continue(r, [Counted(r, Len(rows)) EXCEPT
                  !.pc = "recording", !.resp = NoOutcome, !.inserts = log])
             /\ UNCHANGED lastReply
          \/ /\ PlainEnd(r, "response", 500, Some(InsertErrorMessage), log)
             /\ UNCHANGED <<events, places>>
  /\ UNCHANGED <<queueVars, mapVars, firecrawlApiKey, storeFaulty, sources, clock,
                 created, crawlSources>>

\* Lines 258-275: the crawl_sources insert, whose result is not read, and the
\* 200 response.  The store rejects the insert of a key it already holds
\* when the unique constraint (lines 321-326) is in place.
PlainRecord(r) ==
  /\ r.pc = "recording"
  /\ \/ sources' = InsertSource(sources, r.url, r.type)
     \/ RowsOf(sources, r.url, r.type) # {} /\ UNCHANGED sources
  /\ PlainEnd(r, "response", 200, Null, Append(r.inserts, "crawl_sources"))
  /\ UNCHANGED <<queueVars, mapVars, firecrawlApiKey, storeFaulty, events, places,
                 clock, created, crawlSources>>

PlainStep(r) ==
  \/ PlainStart(r)
  \/ PlainFetch(r)
  \/ PlainIngest(r)
  \/ PlainRecord(r)

\* A POST {url, type} to /crawl.
PlainPost(url, type) ==
  /\ created < MaxRuns
  /\ runs' = runs (+) SetToBag({NewPlainRun(url, type)})
  /\ created' = created + 1
  /\ UNCHANGED <<queueVars, mapVars, firecrawlApiKey, storeFaulty, sources, events,
                 places, clock, lastReply, crawlSources>>

InitPlain == InitStore /\ NoMapping /\ sources = {} /\ storeFaulty = FALSE

NextPlain ==
  \/ \E u \in Urls, t \in CrawlTypes : PlainPost(u, t)
  \/ \E r \in Running : PlainStep(r)

SpecPlain == InitPlain /\ [][NextPlain]_vars

\* ===================================================================== claims
Keys == Urls \X CrawlTypes

\* The run r took this step.
Stepped(r) == CopiesIn(r, runs') < CopiesIn(r, runs)

\* A run ended in this step; lastReply' says how.
Ended == InFlight' < InFlight

\* Every row of the key in S has the given status.
AllRows(S, url, type, status) ==
  \A row \in RowsOf(S, url, type) : row.crawl_status = status

\* C1: a submission made while the row of (url, type) shows pending or
\* crawling is rejected: the run it creates, if any, never calls the
\* extraction service.
C1_SubmissionGuard == \A r \in Running : r.guarded => ~Called(r)

\* C2: once the row of (url, type) is pending, its status eventually is
\* completed or failed.
C2_EventuallyTerminal ==
  \A k \in Keys :
    (StatusOf(sources, k[1], k[2]) = "pending")
      ~> (StatusOf(sources, k[1], k[2]) \in {"completed", "failed"})

\* C3: the status of a row changes only along idle->pending,
\* pending->crawling, crawling->completed, crawling->failed,
\* completed->pending and failed->pending.
LegalTransitions ==
  {<<"idle", "pending">>, <<"pending", "crawling">>, <<"crawling", "completed">>,
   <<"crawling", "failed">>, <<"completed", "pending">>, <<"failed", "pending">>}
C3_LegalTransitions ==
  [][\A old \in sources, new \in sources' :
       (old.id = new.id /\ old.crawl_status # new.crawl_status)
         => <<old.crawl_status, new.crawl_status>> \in LegalTransitions]_vars

\* C4: in every reachable state every row has an error_message if and only
\* if its crawl_status is failed.
C4_ErrorIffFailed ==
  \A row \in sources : (row.error_message # Null) <=> (row.crawl_status = "failed")

\* C4 witness: the row of a crawl that ended failed (502) is pending again
\* with its message cleared by the resubmission now in flight.
C4_Witness ==
  \E row \in sources :
       /\ row.crawl_status = "pending" /\ row.error_message = Null
       /\ lastReply.status = 502 /\ lastReply.type = row.source_type
       /\ created = 2 /\ InFlight = 1

\* C5: after any sequence of submissions, crawls and refresh sweeps there is
\* at most one crawl_sources row per (source_url, source_type).
C5_UniqueSource ==
  \A k \in Keys : Cardinality(RowsOf(sources, k[1], k[2])) <= 1

\* C6: once a submission of (url, type) has been answered, whatever the
\* answer, a crawl_sources row of (url, type) exists.
C6_SourceExists ==
  lastReply.kind # "none" => RowsOf(sources, lastReply.url, lastReply.type) # {}

RawCount(r) == IF r.type = "events" THEN Len(r.resp.events) ELSE Len(r.resp.places)
TableOf(type, evs, pls) == IF type = "events" THEN evs ELSE pls
Other(type) == IF type = "events" THEN "places" ELSE "events"

C9_FailureLeavesFailed ==
  [][\A r \in Running : (Stepped(r) /\ Ended /\ lastReply'.status # 200) =>
       /\ r.insertedEvents = 0 /\ r.insertedPlaces = 0
       /\ events' = events /\ places' = places
       /\ \A row \in RowsOf(sources', r.url, r.type) :
            row.crawl_status = "failed" /\ row.error_message # Null]_vars

\* A submission from the admin UI for the key of `row` happened in this step:
\* the store was written and a run for the key was created.
Resubmitted(row) ==
  /\ created' > created
  /\ sources' # sources
  /\ \E q \in BagToSet(runs') :
       /\ CopiesIn(q, runs') > CopiesIn(q, runs)
       /\ q.url = row.source_url /\ q.type = row.source_type

\* C10: a run whose extraction call timed out leaves the row failed with a
\* message, and a submission from the admin UI for a failed row moves it to
\* pending with error_message cleared and creates a run that is not guarded.
C10_ReentryAfterTimeout ==
  [][/\ \A r \in Running :
          (Stepped(r) /\ Ended /\ lastReply'.kind = "rejected") =>
            \A row \in RowsOf(sources', r.url, r.type) :
              row.crawl_status = "failed" /\ row.error_message # Null
     /\ \A row \in sources :
          (row.crawl_status = "failed" /\ Resubmitted(row)) =>
            \E new \in sources' :
              /\ new.id = row.id
              /\ new.crawl_status = "pending"
              /\ new.error_message = Null]_vars

\* The synchronous handler got the answer success = false with a reason and
\* every row of the run's key holds that reason.
SyncReasonKept ==
  \A r \in Running : \A o \in ScrapeOutcomes(r.type) :
    (o.kind = "json" /\ ~o.success /\ o.error # Null /\ FetchAnswer(r, o)) =>
      \A row \in RowsOf(sources', r.url, r.type) : row.error_message = o.error

\* The job's row after this step.
JobAfter(job) == {j \in crawlJobs' : j.id = job.id}

\* A sweep got the answer status = failed with a reason and the job holds it.
SweepReasonOnJob ==
  \A s \in Sweeping : s.pc = "poll" =>
    \A o \in PollOutcomes(Head(s.jobs).crawl_type) :
      (o.status = "failed" /\ o.error # Null /\ SweepAnswer(s, o)) =>
        \A j \in JobAfter(Head(s.jobs)) : j.error_message = o.error

\* ... and every crawl_sources row of the job's key holds it.
SweepReasonOnSource ==
  \A s \in Sweeping : s.pc = "poll" =>
    \A o \in PollOutcomes(Head(s.jobs).crawl_type) :
      (o.status = "failed" /\ o.error # Null /\ SweepAnswer(s, o)) =>
        \A row \in RowsOf(sources', Head(s.jobs).source_url,
                          Head(s.jobs).crawl_type) :
          row.error_message = o.error

\* C11: when the extraction service reports its own failure with reason r
\* (success = false to the synchronous handler, status = failed to the
\* sweep), the error_message of the crawl_sources row of the key, and in the
\* job-queue variant also that of the crawl_jobs row, is r.
C11_ReasonPreserved ==
  [][SyncReasonKept /\ SweepReasonOnJob /\ SweepReasonOnSource]_vars

\* The run r, which has inserted its records, ended with 200 in this step and
\* the store rejected its final status write (the one to completed), its
\* earlier writes having succeeded.
FinalWriteRejected(r) ==
  /\ Stepped(r) /\ Ended /\ r.pc = "completing"
  /\ lastReply'.status = 200 /\ lastReply'.lost /\ ~r.lost

\* C12: when the status write that follows a successful extraction fails,
\* the crawl is marked failed and no record of the attempt stays committed;
\* no run ends with records committed and its row still crawling.
C12_StatusWriteFailure ==
  [][\A r \in Running : FinalWriteRejected(r) =>
       /\ \A row \in RowsOf(sources', r.url, r.type) : row.crawl_status = "failed"
       /\ r.insertedEvents = 0 /\ r.insertedPlaces = 0]_vars

\* C13: two submissions racing on one (url, type) both call the extraction
\* service, and every status write of either run lands whatever the other
\* run wrote before: a run that starts leaves the row crawling and a run
\* that answers leaves it completed (200) or failed, so the row holds the
\* outcome of the attempt that wrote last.
C13_LastWriteWins ==
  [][\A r \in Running : Stepped(r) =>
       /\ (~Ended /\ r.pc = "invoked") =>
            AllRows(sources', r.url, r.type, "crawling")
       /\ (Ended /\ lastReply'.kind = "response") =>
            AllRows(sources', r.url, r.type,
                    IF lastReply'.status = 200 THEN "completed" ELSE "failed")]_vars

\* C13 witness: a run submitted while the row was pending or crawling has
\* called the extraction service and is still waiting, and the other run of
\* the same key has meanwhile answered 200 and left the row completed.
C13_Witness ==
  \E q \in Running :
    /\ q.guarded /\ q.pc = "fetching"
    /\ lastReply.status = 200 /\ lastReply.url = q.url /\ lastReply.type = q.type
    /\ RowsOf(sources, q.url, q.type) # {}
    /\ AllRows(sources, q.url, q.type, "completed")

\* The /crawl run r of the job-queue variant answered 200 (queued) in this step.
Queued200(r) ==
  Stepped(r) /\ Ended /\ r.pc = "inserting" /\ lastReply'.status = 200

\* A queued submission adds exactly one crawl_jobs row, with the id the
\* service returned, the submitted url and type, status pending and
\* completed_at null, and inserts no record; a submission the service gave
\* no id for adds no row.
QueuedJobCreated ==
  \A r \in Running :
    /\ Queued200(r) =>
         /\ \E j \in crawlJobs' \ crawlJobs :
              /\ crawlJobs' = crawlJobs \cup {j}
              /\ j.firecrawl_job_id = r.resp.id[1]
              /\ j.source_url = r.url /\ j.crawl_type = r.type
              /\ j.status = "pending" /\ j.completed_at = Null
         /\ events' = events /\ places' = places
    /\ (Stepped(r) /\ Ended /\ r.pc = "queueing") => crawlJobs' = crawlJobs

\* A queued submission leaves the crawl_sources row of its key crawling.
QueuedSourceCrawling ==
  \A r \in Running : Queued200(r) =>
    \E row \in RowsOf(sources', r.url, r.type) : row.crawl_status = "crawling"

\* C14: when the service accepts a submission with job id j, the submit
\* creates exactly one pending crawl_jobs row for j, url and type with
\* completed_at null, moves the crawl_sources row to crawling and answers
\* queued without ingesting anything; with no job id it creates no row.
C14_AsyncSubmit == [][QueuedJobCreated /\ QueuedSourceCrawling]_vars

\* The sweep s took this step.
SweepStepped(s) == CopiesIn(s, sweeps') < CopiesIn(s, sweeps)

Terminal == {"completed", "failed"}

\* C15: a crawl_jobs row that is completed or failed is never written
\* again, and no sweep inserts the records of a job that already is
\* completed or failed - also when two sweeps read the same pending job.
C15_TerminalOnce ==
  [][/\ \A j \in crawlJobs : j.status \in Terminal => j \in crawlJobs'
     /\ \A s \in Sweeping :
          (SweepStepped(s) /\ s.pc = "ingest"
             /\ (events' # events \/ places' # places)) =>
            \A j \in crawlJobs : j.id = Head(s.jobs).id => j.status = "pending"]_vars

\* C16: in every reachable state every crawl_jobs row has completed_at set
\* if and only if its status is completed or failed.
C16_CompletedAtIffTerminal ==
  \A j \in crawlJobs : (j.completed_at # Null) <=> (j.status \in Terminal)

\* C16 witness: one job is completed and another failed, both stamped, after
\* both had been pending.
C16_Witness ==
  /\ \E j \in crawlJobs : j.status = "completed" /\ j.completed_at # Null
  /\ \E j \in crawlJobs : j.status = "failed" /\ j.completed_at # Null

PendingJobs == {j \in crawlJobs : j.status = "pending"}

\* The store: the four tables.
store == <<crawlJobs, sources, events, places>>

\* The jobs a sweep takes from its select were all pending when it read them.
SweepReadsPending ==
  \A s \in Sweeping : (SweepStepped(s) /\ s.pc = "invoked") =>
    \A q \in BagToSet(sweeps') :
      CopiesIn(q, sweeps') > CopiesIn(q, sweeps) =>
        \A i \in 1..Len(q.jobs) : q.jobs[i] \in PendingJobs

\* Whenever a sweep polls a job or goes on handling it, the job's row is
\* still pending.
SweepLeavesTerminal ==
  \A s \in Sweeping : (SweepStepped(s) /\ s.pc # "invoked") =>
    \A j \in crawlJobs : j.id = Head(s.jobs).id => j.status = "pending"

\* A sweep that starts when no job is pending ends at once, changes nothing
\* in the store, and its summary, when it returns one, is all zeros.
EmptySweepNoOp ==
  \A s \in Sweeping :
    (SweepStepped(s) /\ s.pc = "invoked" /\ PendingJobs = {}) =>
      /\ UNCHANGED store
      /\ BagCardinality(sweeps') < BagCardinality(sweeps)
      /\ lastSummary'.status = 200 =>
           /\ lastSummary'.processed = 0 /\ lastSummary'.completed = 0
           /\ lastSummary'.failed = 0 /\ lastSummary'.pending = 0
           /\ lastSummary'.insertedEvents = 0 /\ lastSummary'.insertedPlaces = 0

\* C17: the sweep reads only pending jobs, never polls or writes a job that
\* already is completed or failed, and with no pending job it returns zeros
\* and changes nothing in the store.
C17_SweepNothingPending ==
  [][SweepReadsPending /\ SweepLeavesTerminal /\ EmptySweepNoOp]_vars

\* The sweep s as it is after its step: the sweep it continues as, or the
\* summary it returned.
SweepAfter(s) ==
  IF BagCardinality(sweeps') < BagCardinality(sweeps) THEN lastSummary'
  ELSE CHOOSE q \in BagToSet(sweeps') : CopiesIn(q, sweeps') > CopiesIn(q, sweeps)

\* C18: when the poll of a job answers processing, the sweep counts the job
\* as pending (and as processed), counts nothing else, and leaves crawl_jobs,
\* crawl_sources, events and places as they were.
C18_StillProcessing ==
  [][\A s \in Sweeping : s.pc = "poll" =>
       \A o \in PollOutcomes(Head(s.jobs).crawl_type) :
         (o.status = "processing" /\ SweepAnswer(s, o)) =>
           /\ UNCHANGED store
           /\ SweepAfter(s).pending = s.pending + 1
           /\ SweepAfter(s).processed = s.processed + 1
           /\ SweepAfter(s).completed = s.completed
           /\ SweepAfter(s).failed = s.failed
           /\ SweepAfter(s).insertedEvents = s.insertedEvents
           /\ SweepAfter(s).insertedPlaces = s.insertedPlaces]_vars

\* C18 witness: a sweep has returned counting one job as still pending, and
\* that job is pending with completed_at null.
C18_Witness ==
  /\ lastSummary.status = 200 /\ lastSummary.pending = 1
  /\ lastSummary.processed = 1
  /\ \E j \in crawlJobs : j.status = "pending" /\ j.completed_at = Null
  /\ sources = {} /\ events = EmptyBag /\ places = EmptyBag

\* The raw records of the job's category in the answer a sweep is ingesting.
SweepRaw(s) ==
  IF Head(s.jobs).crawl_type = "events" THEN s.resp.events ELSE s.resp.places

\* The bulk insert of a completed job's N records went through: the job's
\* table gains N rows, all unapproved and carrying the job's url, the other
\* table gains none, and the category's insert counter grows by N.
SweepInsertsRecords ==
  \A s \in Sweeping :
    (SweepStepped(s) /\ s.pc = "ingest" /\ SweepAfter(s).failed = s.failed) =>
      LET job == Head(s.jobs)
          N == Len(SweepRaw(s))
          type == job.crawl_type
          added == TableOf(type, events', places') (-) TableOf(type, events, places)
      IN /\ N > 0
         /\ TableOf(type, events, places) \sqsubseteq TableOf(type, events', places')
         /\ BagCardinality(added) = N
         /\ \A row \in BagToSet(added) :
              ~row.approved /\ row.source_url = job.source_url
         /\ TableOf(Other(type), events', places')
              = TableOf(Other(type), events, places)
         /\ TableOf(type, SweepAfter(s).insertedEvents, SweepAfter(s).insertedPlaces)
              = TableOf(type, s.insertedEvents, s.insertedPlaces) + N
         /\ TableOf(Other(type), SweepAfter(s).insertedEvents,
                    SweepAfter(s).insertedPlaces)
              = TableOf(Other(type), s.insertedEvents, s.insertedPlaces)

\* The sweep s wrote the completed status of the job it is handling.
MarkedCompleted(s) == SweepStepped(s) /\ s.pc = "complete" /\ clock' # clock

\* ... the job is then completed with completed_at set and the completed
\* counter has grown by one, the failed and pending counters have not.
SweepMarksJob ==
  \A s \in Sweeping : MarkedCompleted(s) =>
    /\ JobAfter(Head(s.jobs)) # {}
    /\ \A j \in JobAfter(Head(s.jobs)) :
         j.status = "completed" /\ j.completed_at # Null /\ j.error_message = Null
    /\ SweepAfter(s).completed = s.completed + 1
    /\ SweepAfter(s).failed = s.failed /\ SweepAfter(s).pending = s.pending

\* ... and the crawl_sources row of the job's key is completed.
SweepMarksSource ==
  \A s \in Sweeping : MarkedCompleted(s) =>
    /\ RowsOf(sources', Head(s.jobs).source_url, Head(s.jobs).crawl_type) # {}
    /\ AllRows(sources', Head(s.jobs).source_url, Head(s.jobs).crawl_type,
               "completed")

\* C19: for a job whose poll answers completed with N raw records, the sweep
\* inserts the N mapped records, marks the job completed with completed_at
\* set, marks the crawl_sources row of the job's key completed, and adds 1 to
\* the completed counter and N to the insert counter of the job's category.
C19_SweepCompleted ==
  [][SweepInsertsRecords /\ SweepMarksJob /\ SweepMarksSource]_vars

\* The reason the sweep records for a failing answer o (lines 224, 248).
FailureReason(o) ==
  IF o.kind = "http" THEN Some("Firecrawl status failed: " \o ToString(o.http))
  ELSE OrDefault(o.error, "Firecrawl job failed")

\* Answers that fail the job: status = failed, or a poll that is not ok.
Failing(o) == o.kind = "http" \/ o.status = "failed"

\* A failing answer leaves the job failed with the reason and completed_at
\* set, counts it as failed only, and inserts no record.
SweepFailsJob ==
  \A s \in Sweeping : s.pc = "poll" =>
    \A o \in PollOutcomes(Head(s.jobs).crawl_type) :
      (Failing(o) /\ SweepAnswer(s, o)) =>
        /\ JobAfter(Head(s.jobs)) # {}
        /\ \A j \in JobAfter(Head(s.jobs)) :
             /\ j.status = "failed" /\ j.completed_at # Null
             /\ j.error_message = FailureReason(o)
        /\ SweepAfter(s).failed = s.failed + 1
        /\ SweepAfter(s).completed = s.completed
        /\ SweepAfter(s).pending = s.pending
        /\ SweepAfter(s).insertedEvents = s.insertedEvents
        /\ SweepAfter(s).insertedPlaces = s.insertedPlaces
        /\ UNCHANGED <<events, places>>

\* ... and leaves the crawl_sources row of the job's key failed with it.
SweepFailsSource ==
  \A s \in Sweeping : s.pc = "poll" =>
    \A o \in PollOutcomes(Head(s.jobs).crawl_type) :
      (Failing(o) /\ SweepAnswer(s, o)) =>
        LET rows == RowsOf(sources', Head(s.jobs).source_url,
                           Head(s.jobs).crawl_type)
        IN /\ rows # {}
           /\ \A row \in rows : /\ row.crawl_status = "failed"
                                 /\ row.error_message = FailureReason(o)

\* C20: for a job whose poll answers failed, the sweep marks the job and the
\* crawl_sources row of the job's key failed with the provider's reason, adds
\* 1 to the failed counter and inserts no record for the job.
C20_SweepFailed == [][SweepFailsJob /\ SweepFailsSource]_vars

\* The sweep s has taken a step that handles the payload of its job: the
\* bulk insert, the crawl_sources insert or the completed update.
Handled(s) == SweepStepped(s) /\ s.pc \in {"ingest", "record", "complete"}

\* The store rejected the bulk insert or the crawl_sources insert of s.
InsertRejected(s) ==
  /\ SweepStepped(s) /\ s.pc \in {"ingest", "record"}
  /\ SweepAfter(s).failed = s.failed + 1

\* A sweep that stops while handling a job stops because that was its last
\* job, and returns the summary.
SweepNeverAborts ==
  \A s \in Sweeping :
    (Handled(s) /\ BagCardinality(sweeps') < BagCardinality(sweeps)) =>
      /\ Len(s.jobs) = 1
      /\ lastSummary'.kind = "response" /\ lastSummary'.status = 200

\* A rejected insert leaves the job failed with the store's message.
RejectedInsertFailsJob ==
  \A s \in Sweeping : InsertRejected(s) =>
    /\ JobAfter(Head(s.jobs)) # {}
    /\ \A j \in JobAfter(Head(s.jobs)) :
         j.status = "failed" /\ j.error_message = Some(InsertErrorMessage)

\* ... and the crawl_sources row of the job's key failed.
RejectedInsertFailsSource ==
  \A s \in Sweeping : InsertRejected(s) =>
    /\ RowsOf(sources', Head(s.jobs).source_url, Head(s.jobs).crawl_type) # {}
    /\ AllRows(sources', Head(s.jobs).source_url, Head(s.jobs).crawl_type,
               "failed")

\* C21: a store failure while a sweep handles one job (the record insert, the
\* crawl_sources write, the write of the terminal status) makes that job and
\* its crawl_sources row failed and never aborts the sweep: the sweep goes on
\* to its other jobs and returns its counters.
C21_SweepIsolation ==
  [][SweepNeverAborts /\ RejectedInsertFailsJob /\ RejectedInsertFailsSource]_vars

\* C22: a crawl_sources row whose crawl_status is not idle never has
\* crawl_status idle again, whichever step is taken (submission, re-crawl,
\* handler run).
C22_NeverBackToIdle ==
  [][\A row \in sources : row.crawl_status # "idle" =>
       \A after \in sources' : after.id = row.id => after.crawl_status # "idle"]_vars

\* C22 witness: a row the admin page still lists as idle has been crawled to
\* the end and submitted or re-crawled again, and is pending or crawling.
C22_Witness ==
  /\ created = 2
  /\ lastReply.kind = "response"
  /\ \E listed \in crawlSources : \E row \in sources :
       /\ listed.crawl_status = "idle" /\ row.id = listed.id
       /\ row.source_url = lastReply.url /\ row.source_type = lastReply.type
       /\ row.crawl_status \in {"pending", "crawling"}
       /\ \E r \in Running : r.url = row.source_url /\ r.type = row.source_type

\* The records a mapper returned, paired with the raw records it was given.
MappedEvents == IF normalizeOut.events = Null THEN <<>> ELSE normalizeOut.events[1]
MappedPlaces == IF normalizeOut.places = Null THEN <<>> ELSE normalizeOut.places[1]
RawOf(i) == normalizeIn.records[i]

\* A mapper's output has one record per raw record, stamped.
Stamped(out) ==
  /\ Len(out) = Len(normalizeIn.records)
  /\ \A i \in 1..Len(out) :
       out[i].source_url = normalizeIn.sourceUrl /\ out[i].approved = FALSE

\* C23: both mappers return exactly one record per raw record (none for the
\* empty list), each with source_url = sourceUrl and approved = false,
\* whatever source_url and approved the raw record carries.
C23_MapperStamping ==
  /\ normalizeOut.events # Null => Stamped(MappedEvents)
  /\ normalizeOut.places # Null => Stamped(MappedPlaces)

\* C23 witness: both mappers have mapped a list of two raw records of which
\* one claims approved = true or names another source_url.
C23_Witness ==
  /\ normalizeOut.events # Null /\ normalizeOut.places # Null
  /\ Len(MappedEvents) = 2 /\ Len(MappedPlaces) = 2
  /\ \E i \in 1..2 :
       \/ Field(RawOf(i), "approved") = JsBool(TRUE)
       \/ /\ Field(RawOf(i), "source_url").t = "string"
          /\ Field(RawOf(i), "source_url").s # normalizeIn.sourceUrl

\* The text fields of the two record types that are not timestamps.
EventTextFields == {"title", "description", "location_name", "address", "website"}
PlaceTextFields == {"name", "description", "category", "address", "website"}

\* The raw value when it is a string, "" otherwise.
StringElseEmpty(v) == IF v.t = "string" THEN v.s ELSE ""

\* C24: every text field of a mapped record is the raw value when that is a
\* string, and "" when the raw field is missing or is not a string.
C24_ScalarCoercion ==
  /\ \A i \in 1..Len(MappedEvents) : \A f \in EventTextFields :
       MappedEvents[i][f] = StringElseEmpty(Field(RawOf(i), f))
  /\ \A i \in 1..Len(MappedPlaces) : \A f \in PlaceTextFields :
       MappedPlaces[i][f] = StringElseEmpty(Field(RawOf(i), f))

\* The raw values that are timestamps: a full ISO-8601 timestamp, or a date
\* and a time of day separated by a blank.
IsTimestamp(v) ==
  v.t = "string" /\ v.s \in {"2025-01-01T10:00:00Z", "2025-01-01T11:00:00Z",
                              "2025-01-01 10:00"}

\* A mapped start_time / end_time is a timestamp for a raw timestamp and null
\* for every other raw value.
TimeCoerced(raw, mapped) == (mapped # Null) <=> IsTimestamp(raw)

\* C25: start_time and end_time of a mapped event hold a timestamp when the
\* raw value is a full ISO-8601 timestamp or has the form YYYY-MM-DD HH:MM,
\* and are null for every other raw value (missing, empty, not a string, a
\* string that is no date).
C25_TimestampCoercion ==
  \A i \in 1..Len(MappedEvents) :
    /\ TimeCoerced(Field(RawOf(i), "start_time"), MappedEvents[i].start_time)
    /\ TimeCoerced(Field(RawOf(i), "end_time"), MappedEvents[i].end_time)

\* The mapped tags are empty for a raw value that is no list, and otherwise
\* the raw elements as strings, in order.
TagsCoerced(raw, tags) ==
  IF raw.t # "array" THEN tags = <<>>
  ELSE /\ Len(tags) = Len(raw.a)
       /\ \A k \in 1..Len(tags) : tags[k] = JsString(raw.a[k])

\* C26: the tags of a mapped record are the empty list when the raw tags are
\* not a list (missing, null, string, number, object), and otherwise the raw
\* elements each converted to a string, in the same order and number.
C26_TagsCoercion ==
  /\ \A i \in 1..Len(MappedEvents) :
       TagsCoerced(Field(RawOf(i), "tags"), MappedEvents[i].tags)
  /\ \A i \in 1..Len(MappedPlaces) :
       TagsCoerced(Field(RawOf(i), "tags"), MappedPlaces[i].tags)

\* C26 witness: both mappers have mapped a record whose tags are a string,
\* or one whose tags are a list with a number and a null among them.
C26_Witness ==
  /\ Len(MappedEvents) = 2 /\ Len(MappedPlaces) = 2
  /\ \E i \in 1..2 :
       \/ /\ Field(RawOf(i), "tags") = JsStr("Story Time")
          /\ MappedEvents[i].tags = <<>> /\ MappedPlaces[i].tags = <<>>
       \/ /\ Field(RawOf(i), "tags") = JsArr(<<JsNum("7"), JsNull, JsStr("indoor")>>)
          /\ MappedEvents[i].tags = <<"7", "null", "indoor">>
          /\ MappedPlaces[i].tags = <<"7", "null", "indoor">>

\* The number of records of its category the run r has inserted.
InsertedOf(r) == TableOf(r.type, r.insertedEvents, r.insertedPlaces)

\* The bulk insert of N >= 1 mapped records is one step that adds N rows to
\* the category's table and touches neither the other table nor
\* crawl_sources.
OneBulkInsert ==
  \A r \in Running :
    (Stepped(r) /\ r.pc = "ingest" /\ ~Ended /\ Len(PlainMapped(r)) >= 1) =>
      /\ TableOf(r.type, events', places')
           = TableOf(r.type, events, places) (+) BagOfSeq(PlainMapped(r))
      /\ TableOf(Other(r.type), events', places')
           = TableOf(Other(r.type), events, places)
      /\ UNCHANGED sources

\* The response after such an insert: 200, the category's counter N, the
\* other 0, and the insert calls were the one bulk insert and then the one
\* into crawl_sources.
InsertThenRecord ==
  \A r \in Running :
    (Stepped(r) /\ Ended /\ lastReply'.status = 200 /\ r.inserts # <<>>) =>
      /\ lastReply'.kind = "response"
      /\ lastReply'.inserts = <<r.type, "crawl_sources">>
      /\ InsertedOf(r) >= 1
      /\ TableOf(r.type, lastReply'.insertedEvents, lastReply'.insertedPlaces)
           = InsertedOf(r)
      /\ TableOf(Other(r.type), lastReply'.insertedEvents,
                 lastReply'.insertedPlaces) = 0
      /\ UNCHANGED <<events, places>>

\* The records counted are the records mapped.
CountsMapped ==
  \A r \in Running :
    (Stepped(r) /\ r.pc = "ingest" /\ ~Ended /\ Len(PlainMapped(r)) >= 1) =>
      \E q \in BagToSet(runs') :
        /\ CopiesIn(q, runs') > CopiesIn(q, runs)
        /\ InsertedOf(q) = Len(PlainMapped(r))
        /\ TableOf(Other(r.type), q.insertedEvents, q.insertedPlaces) = 0

\* C27: a successful synchronous crawl of category c that maps N >= 1 records
\* makes exactly one bulk insert into c's table, then one insert into
\* crawl_sources, writes nothing to the other category's table, and answers
\* 200 with c's counter N and the other counter 0.
C27_InsertThenRecord == [][OneBulkInsert /\ CountsMapped /\ InsertThenRecord]_vars

\* C27 witness: a crawl has answered 200 after inserting two records.
C27_Witness ==
  /\ lastReply.kind = "response" /\ lastReply.status = 200
  /\ "inserts" \in DOMAIN lastReply
  /\ lastReply.inserts = <<lastReply.type, "crawl_sources">>
  /\ TableOf(lastReply.type, lastReply.insertedEvents, lastReply.insertedPlaces) = 2
  /\ BagCardinality(TableOf(lastReply.type, events, places)) >= 2
  /\ RowsOf(sources, lastReply.url, lastReply.type) # {}

\* The sweep s inserted the records of the job it is handling.
IngestedPayload(s) ==
  SweepStepped(s) /\ s.pc = "ingest" /\ (events' # events \/ places' # places)

\* C28: a sweep marks a job completed, and inserts the job's records, only
\* when the poll of that job answered status = completed.
C28_CompletedOnlyIfReported ==
  [][\A s \in Sweeping :
       (MarkedCompleted(s) \/ IngestedPayload(s)) => s.answer = "completed"]_vars

\* The sweep s returned its summary in this step.
Summarised(s) ==
  /\ SweepStepped(s) /\ BagCardinality(sweeps') < BagCardinality(sweeps)
  /\ lastSummary'.kind = "response" /\ lastSummary'.status = 200

\* Every job the sweep read is counted once, as completed, failed or pending.
CountersAddUp ==
  \A s \in Sweeping : Summarised(s) =>
    /\ lastSummary'.processed
         = lastSummary'.completed + lastSummary'.failed + lastSummary'.pending
    /\ lastSummary'.processed = s.read

\* The insert counters count the records of the jobs counted as completed.
InsertsOfCompleted ==
  \A s \in Sweeping : Summarised(s) =>
    lastSummary'.insertedEvents + lastSummary'.insertedPlaces
      = s.credited + (IF s.pc = "complete" THEN s.batch ELSE 0)

\* C29: in every summary a sweep returns, processed = completed + failed +
\* pending, processed is the number of pending jobs the sweep read, and
\* insertedEvents + insertedPlaces is the number of records inserted for the
\* jobs counted as completed.
C29_CounterConservation == [][CountersAddUp /\ InsertsOfCompleted]_vars

\* C30: last_crawled_at of a crawl_sources row changes only in a step that
\* leaves the row completed; a write of pending, crawling or failed
\* (submission, re-crawl, missing credential, extraction or store failure)
\* leaves it as it was.
C30_LastCrawledOnlyOnCompleted ==
  [][\A row \in sources : \A after \in sources' :
       (after.id = row.id /\ after.last_crawled_at # row.last_crawled_at) =>
         /\ after.crawl_status = "completed"
         /\ after.last_crawled_at = Some(clock)]_vars

\* C30 witness: a re-crawl of a source crawled successfully before has
\* failed, and the row is failed and still holds the time of that crawl.
C30_Witness ==
  /\ created = 2 /\ runs = EmptyBag
  /\ lastReply.kind = "response" /\ lastReply.status # 200
  /\ \E row \in RowsOf(sources, lastReply.url, lastReply.type) :
       /\ row.crawl_status = "failed" /\ row.error_message # Null
       /\ row.last_crawled_at # Null /\ row.last_crawled_at[1] < clock

====
